---- MODULE Spec2Model ----
(***************************************************************************)
(* A model of lib/traversal.js (connect-traversal): the resource-type      *)
(* registry, resource instances and their traversal, the path-handler      *)
(* table, the chain builder, URL reconstruction and the middleware         *)
(* dispatcher.                                                             *)
(*                                                                         *)
(* Encoding of JavaScript values:                                          *)
(*  - a string that the code splits or joins (a url, a path segment, a     *)
(*    key) is a sequence of one-character strings; the empty sequence is   *)
(*    the empty string, and also stands for an absent (undefined) key or   *)
(*    pathname: the code only ever tests these for truthiness;             *)
(*  - a JS object used as a map (resources, paths and its three nested     *)
(*    levels, children) is a function whose DOMAIN is the set of keys      *)
(*    present; an absent `children` is the empty map;                      *)
(*  - a resource instance is the sequence of the nodes on its parent       *)
(*    chain, outermost ancestor first and the instance itself last, so     *)
(*    `x.parent` is Front(x), an instance without parent has length 1 and  *)
(*    null (no instance) is the empty sequence. Each node carries the      *)
(*    prototype its factory was registered with (JS: its [[Prototype]]).   *)
(***************************************************************************)
EXTENDS Integers, Sequences, FiniteSets, TLC

VARIABLES resources, root, paths, reqs, last

vars == <<resources, root, paths, reqs, last>>

----------------------------------------------------------------------------
(* Bounds and input sets *)

MaxUrlLen == 5
MaxPaths == 2
MaxContCalls == 2
MaxHandlers == 3
MaxShortUrlLen == 3

Undefined == "undefined"
Null == "null"
NoErr == "none"

Chars == {"/", "u", "4"}
Digits == {"4"}

Ids == {"R", "U", "I"}

ReqIds == {"q1", "q2"}

Methods == {"GET", "POST"}

HandlerPool == <<"h2", "h1", "h3", "h4">>

Handlers == {HandlerPool[k] : k \in 1..Len(HandlerPool)}

NonCallable == "notfn"

IndexName == <<"index">>

u == <<"u">>

RECURSIVE SeqsUpTo(_, _)
SeqsUpTo(S, n) ==
    IF n = 0 THEN {<<>>}
    ELSE LET shorter == SeqsUpTo(S, n - 1)
         IN  shorter \cup {Append(s, c) : s \in {t \in shorter : Len(t) = n - 1}, c \in S}

Urls == SeqsUpTo(Chars, MaxUrlLen)

Keys == {<<"u">>, <<"4">>, <<"u", "4">>, <<"4", "4">>}

----------------------------------------------------------------------------
(* JS helpers *)

Front(s) == SubSeq(s, 1, Len(s) - 1)

Last(s) == s[Len(s)]

Has(obj, k) == k \in DOMAIN obj

Put(obj, k, v) == [x \in (DOMAIN obj) \cup {k} |-> IF x = k THEN v ELSE obj[x]]

EmptyObj == <<>>

ToLowerCase(m) ==
    CASE m = "GET" -> "get"
      [] m = "POST" -> "post"
      [] OTHER -> m

Ok(v) == [err |-> NoErr, val |-> v]

Throw(e) == [err |-> e, val |-> <<>>]

----------------------------------------------------------------------------
(* Resource prototypes (the `proto` argument of registerResource) *)

ChildValidate(proto, key) ==
    CASE proto.childValidate = "numeric" -> key # <<>> /\ \A k \in 1..Len(key) : key[k] \in Digits
      [] OTHER -> key # <<>>

PRoot == [children |-> (u :> "U"), child |-> "I", childValidate |-> "default"]

PUsers == [children |-> EmptyObj, child |-> "I", childValidate |-> "numeric"]

PLeaf == [children |-> EmptyObj, child |-> Undefined, childValidate |-> "default"]

PMixed == [children |-> (<<"4">> :> "U"), child |-> "I", childValidate |-> "numeric"]

Protos == {PRoot, PUsers, PLeaf, PMixed}

Factory(id, proto) == [resource |-> id, proto |-> proto]

(* The constructor `obj` of registerResource: this.resource = id, then     *)
(* Resource assigns key and parent, then init() runs on the instance.     *)
(* `inits` records, for each run of init, the key and parent it found.    *)
ObjThis(factory) ==
    [resource |-> factory.resource, key |-> <<>>, proto |-> factory.proto, inits |-> <<>>]

Resource(this, key, parent) == Append(parent, [this EXCEPT !.key = key])

RunInit(inst) ==
    [inst EXCEPT ![Len(inst)].inits =
                     Append(@, [key |-> Last(inst).key, parent |-> Front(inst)])]

NewInitsFirst(factory, key, parent) ==
    LET this == Last(RunInit(<<ObjThis(factory)>>))
    IN  Resource(this, key, parent)

New(factory, key, parent) == RunInit(Resource(ObjThis(factory), key, parent))

----------------------------------------------------------------------------
(* Traversal.prototype.checkResource *)

CheckResourceFails(res, id) == ~Has(res, id)

----------------------------------------------------------------------------
(* Resource.prototype.get: static `children` first, then the dynamic       *)
(* `child` guarded by childValidate, else null. The looked-up factory is   *)
(* the one registered at the time of the call.                             *)

GetUnchecked(res, x, key) ==
    LET this == Last(x).proto
    IN  IF Has(this.children, key)
        THEN IF Has(res, this.children[key]) THEN Ok(New(res[this.children[key]], key, x))
             ELSE Ok(<<>>)
        ELSE IF this.child # Undefined /\ ChildValidate(this, key)
        THEN IF Has(res, this.child) THEN Ok(New(res[this.child], key, x)) ELSE Ok(<<>>)
        ELSE Ok(<<>>)

GetDynamicFirst(res, x, key) ==
    LET this == Last(x).proto
    IN  IF this.child # Undefined /\ ChildValidate(this, key)
        THEN IF CheckResourceFails(res, this.child)
             THEN Throw("UnregisteredResource")
             ELSE Ok(New(res[this.child], key, x))
        ELSE IF Has(this.children, key)
        THEN IF CheckResourceFails(res, this.children[key])
             THEN Throw("UnregisteredResource")
             ELSE Ok(New(res[this.children[key]], key, x))
        ELSE Ok(<<>>)

Get(res, x, key) ==
    LET this == Last(x).proto
    IN  IF Has(this.children, key)
        THEN IF CheckResourceFails(res, this.children[key])
             THEN Throw("UnregisteredResource")
             ELSE Ok(New(res[this.children[key]], key, x))
        ELSE IF this.child # Undefined /\ ChildValidate(this, key)
        THEN IF CheckResourceFails(res, this.child)
             THEN Throw("UnregisteredResource")
             ELSE Ok(New(res[this.child], key, x))
        ELSE Ok(<<>>)

(* Resource.prototype.traverseTo: _traverseTo(this.parent). The inner      *)
(* function reads resource.resource before it tests `resource`, so an      *)
(* absent parent is a TypeError.                                           *)

RECURSIVE TraverseUp(_, _)
TraverseUp(resource, resourceId) ==
    IF resource = <<>> THEN Throw("TypeError")
    ELSE IF Last(resource).resource = resourceId THEN Ok(resource)
    ELSE IF Front(resource) # <<>> THEN TraverseUp(Front(resource), resourceId)
    ELSE Ok(<<>>)

TraverseTo(x, resourceId) == TraverseUp(Front(x), resourceId)

(* Traversal.prototype.initResource: null when the id is not registered *)

InitResource(res, id, key, parent) ==
    IF Has(res, id) THEN Ok(New(res[id], key, parent)) ELSE Ok(<<>>)

----------------------------------------------------------------------------
(* Traversal.prototype.registerResourcePath, as a function of the state:   *)
(* the error raised (or none) and the path table afterwards.               *)

RootSet(rt) == rt.kind = "factory"

Callable(fn) == fn \in Handlers

StorePathReplacesBucket(p, resourceId, ops, callbacks) ==
    LET p1 == IF Has(p, resourceId) THEN p ELSE Put(p, resourceId, EmptyObj)
        name == IF ops.name # <<>> THEN ops.name ELSE IndexName
        byName == IF Has(p1[resourceId], name) THEN p1[resourceId]
                  ELSE Put(p1[resourceId], name, EmptyObj)
        parent == IF ops.parent # Undefined THEN ops.parent ELSE "all"
        method == IF ops.method # Undefined THEN ToLowerCase(ops.method) ELSE "all"
    IN  Put(p1, resourceId,
            Put(byName, name,
                Put(byName[name], parent, Put(EmptyObj, method, callbacks))))

StorePath(p, resourceId, ops, callbacks) ==
    LET p1 == IF Has(p, resourceId) THEN p ELSE Put(p, resourceId, EmptyObj)
        name == IF ops.name # <<>> THEN ops.name ELSE IndexName
        byName == IF Has(p1[resourceId], name) THEN p1[resourceId]
                  ELSE Put(p1[resourceId], name, EmptyObj)
        parent == IF ops.parent # Undefined THEN ops.parent ELSE "all"
        byParent == IF Has(byName[name], parent) THEN byName[name]
                    ELSE Put(byName[name], parent, EmptyObj)
        method == IF ops.method # Undefined THEN ToLowerCase(ops.method) ELSE "all"
    IN  Put(p1, resourceId,
            Put(byName, name,
                Put(byParent, parent,
                    Put(byParent[parent], method, callbacks))))

RegisterResourcePathStoresFirst(res, rt, p, resourceId, ops, callbacks) ==
    IF ~RootSet(rt) THEN [err |-> "RootNotSet", paths |-> p]
    ELSE IF CheckResourceFails(res, resourceId)
    THEN [err |-> "UnregisteredResource", paths |-> p]
    ELSE IF ops.parent # Undefined /\ CheckResourceFails(res, ops.parent)
    THEN [err |-> "UnregisteredResource", paths |-> p]
    ELSE IF Len(callbacks) = 0 THEN [err |-> "MissingHandlers", paths |-> p]
    ELSE IF \E k \in 1..Len(callbacks) : ~Callable(callbacks[k])
    THEN [err |-> "InvalidHandlerType", paths |-> StorePath(p, resourceId, ops, callbacks)]
    ELSE [err |-> NoErr, paths |-> StorePath(p, resourceId, ops, callbacks)]

RegisterResourcePathResult(res, rt, p, resourceId, ops, callbacks) ==
    IF ~RootSet(rt) THEN [err |-> "RootNotSet", paths |-> p]
    ELSE IF CheckResourceFails(res, resourceId)
    THEN [err |-> "UnregisteredResource", paths |-> p]
    ELSE IF ops.parent # Undefined /\ CheckResourceFails(res, ops.parent)
    THEN [err |-> "UnregisteredResource", paths |-> p]
    ELSE IF Len(callbacks) = 0 THEN [err |-> "MissingHandlers", paths |-> p]
    ELSE IF \E k \in 1..Len(callbacks) : ~Callable(callbacks[k])
    THEN [err |-> "InvalidHandlerType", paths |-> p]
    ELSE [err |-> NoErr, paths |-> StorePath(p, resourceId, ops, callbacks)]

(* Traversal.prototype.getResourcePath. kind is "value" for a handler      *)
(* sequence, "null" for the explicit `return null`, and "undefined" when   *)
(* the chosen parent bucket has neither the method nor "all".              *)

NullResult == [kind |-> "null", val |-> <<>>]

UndefinedResult == [kind |-> "undefined", val |-> <<>>]

Value(v) == [kind |-> "value", val |-> v]

GetResourcePathAllFirst(p, resourceId, ops) ==
    IF Has(p, resourceId)
    THEN LET nm == IF ops.name # <<>> THEN ops.name ELSE IndexName
         IN  IF Has(p[resourceId], nm)
             THEN LET name == p[resourceId][nm]
                  IN  IF Has(name, ops.parent) \/ Has(name, "all")
                      THEN LET parent == IF Has(name, "all") THEN name["all"]
                                         ELSE name[ops.parent]
                               method == ToLowerCase(ops.method)
                           IN  IF Has(parent, "all") THEN Value(parent["all"])
                               ELSE IF Has(parent, method) THEN Value(parent[method])
                               ELSE UndefinedResult
                      ELSE NullResult
             ELSE NullResult
    ELSE NullResult

GetResourcePath(p, resourceId, ops) ==
    IF Has(p, resourceId)
    THEN LET nm == IF ops.name # <<>> THEN ops.name ELSE IndexName
         IN  IF Has(p[resourceId], nm)
             THEN LET name == p[resourceId][nm]
                  IN  IF Has(name, ops.parent) \/ Has(name, "all")
                      THEN LET parent == IF Has(name, ops.parent) THEN name[ops.parent]
                                         ELSE name["all"]
                               method == ToLowerCase(ops.method)
                           IN  IF Has(parent, method) THEN Value(parent[method])
                               ELSE IF Has(parent, "all") THEN Value(parent["all"])
                               ELSE UndefinedResult
                      ELSE NullResult
             ELSE NullResult
    ELSE NullResult

(* The entries of the path table, as 4-tuples *)

PathEntries(p) ==
    UNION {UNION {UNION {{<<r, n, pa, m>> : m \in DOMAIN p[r][n][pa]}
                         : pa \in DOMAIN p[r][n]}
                  : n \in DOMAIN p[r]}
           : r \in DOMAIN p}

----------------------------------------------------------------------------
(* Traversal.prototype.buildChain *)

(* String.prototype.split on "/": the pieces between separators, empty     *)
(* pieces included.                                                        *)
RECURSIVE SplitFrom(_, _, _)
SplitFrom(s, k, cur) ==
    IF k > Len(s) THEN <<cur>>
    ELSE IF s[k] = "/" THEN <<cur>> \o SplitFrom(s, k + 1, <<>>)
    ELSE SplitFrom(s, k + 1, Append(cur, s[k]))

Split(s) == SplitFrom(s, 1, <<>>)

Truthy(el) == el # <<>>

Segments(url) == SelectSeq(Split(url), Truthy)

(* _build: the leaf, and what is stored on the request (pathname, subpath) *)
RECURSIVE BuildKeepsSegment(_, _, _)
BuildKeepsSegment(res, resource, segs) ==
    IF segs = <<>> \/ ~Truthy(Head(segs))
    THEN [err |-> NoErr, resource |-> resource, pathname |-> <<>>, subpath |-> <<>>]
    ELSE LET path == Head(segs)
             resource_n == Get(res, resource, path)
         IN  IF resource_n.err # NoErr
             THEN [err |-> resource_n.err, resource |-> <<>>, pathname |-> <<>>,
                   subpath |-> <<>>]
             ELSE IF resource_n.val = <<>>
             THEN [err |-> NoErr, resource |-> resource, pathname |-> path,
                   subpath |-> segs]
             ELSE BuildKeepsSegment(res, resource_n.val, Tail(segs))

RECURSIVE BuildSkipsUnresolved(_, _, _)
BuildSkipsUnresolved(res, resource, segs) ==
    IF segs = <<>> \/ ~Truthy(Head(segs))
    THEN [err |-> NoErr, resource |-> resource, pathname |-> <<>>, subpath |-> <<>>]
    ELSE LET path == Head(segs)
             rest == Tail(segs)
             resource_n == Get(res, resource, path)
         IN  IF resource_n.err # NoErr
             THEN [err |-> resource_n.err, resource |-> <<>>, pathname |-> <<>>,
                   subpath |-> <<>>]
             ELSE IF resource_n.val = <<>>
             THEN BuildSkipsUnresolved(res, resource, rest)
             ELSE BuildSkipsUnresolved(res, resource_n.val, rest)

RECURSIVE Build(_, _, _)
Build(res, resource, segs) ==
    IF segs = <<>> \/ ~Truthy(Head(segs))
    THEN [err |-> NoErr, resource |-> resource, pathname |-> <<>>, subpath |-> <<>>]
    ELSE LET path == Head(segs)
             rest == Tail(segs)
             resource_n == Get(res, resource, path)
         IN  IF resource_n.err # NoErr
             THEN [err |-> resource_n.err, resource |-> <<>>, pathname |-> <<>>,
                   subpath |-> <<>>]
             ELSE IF resource_n.val = <<>>
             THEN [err |-> NoErr, resource |-> resource, pathname |-> path,
                   subpath |-> rest]
             ELSE Build(res, resource_n.val, rest)

BuildChain(res, rt, url) ==
    IF ~RootSet(rt)
    THEN [err |-> "TypeError", resource |-> <<>>, pathname |-> <<>>, subpath |-> <<>>]
    ELSE Build(res, New(rt.factory, <<>>, <<>>), Segments(url))

----------------------------------------------------------------------------
(* Traversal.prototype.buildResourceUrl *)

RECURSIVE GetKeyAndParentPush(_, _)
GetKeyAndParentPush(resource, parts) ==
    LET parts1 == IF Truthy(Last(resource).key) THEN Append(parts, Last(resource).key)
                  ELSE parts
    IN  IF Front(resource) # <<>> THEN GetKeyAndParentPush(Front(resource), parts1)
        ELSE parts1

RECURSIVE GetKeyAndParent(_, _)
GetKeyAndParent(resource, parts) ==
    LET parts1 == IF Truthy(Last(resource).key) THEN <<Last(resource).key>> \o parts
                  ELSE parts
    IN  IF Front(resource) # <<>> THEN GetKeyAndParent(Front(resource), parts1)
        ELSE parts1

(* Array.prototype.join("/") *)
RECURSIVE Join(_)
Join(parts) ==
    IF parts = <<>> THEN <<>>
    ELSE IF Len(parts) = 1 THEN parts[1]
    ELSE parts[1] \o <<"/">> \o Join(Tail(parts))

BuildResourceUrl(resource, pathname) ==
    <<"/">> \o Join(GetKeyAndParent(resource, IF Truthy(pathname) THEN <<pathname>> ELSE <<>>))

----------------------------------------------------------------------------
(* traversal.middleware and its continuation _callback, on one request     *)

NewReq ==
    [pc |-> "idle", resource |-> <<>>,
     pathname |-> <<>>, subpath |-> <<>>, callbacks |-> <<>>, i |-> -1,
     log |-> <<>>, invoked |-> <<>>, err |-> NoErr]

(* _callback(): i++, then callbacks[i] is called with `next` when it is    *)
(* the last one and with _callback otherwise; callbacks[i] past the end is *)
(* undefined, and calling it is a TypeError.                               *)
CallbackNextTooEarly(r) ==
    LET i == r.i + 1
    IN  IF i + 2 >= Len(r.callbacks)
        THEN [r EXCEPT !.i = i,
                       !.log = Append(@, r.callbacks[i + 1]),
                       !.invoked = Append(@, [h |-> r.callbacks[i + 1], cont |-> "next",
                                              called |-> 0])]
        ELSE [r EXCEPT !.i = i,
                       !.log = Append(@, r.callbacks[i + 1]),
                       !.invoked = Append(@, [h |-> r.callbacks[i + 1],
                                              cont |-> "_callback", called |-> 0])]

Callback(r) ==
    LET i == r.i + 1
    IN  IF i + 1 = Len(r.callbacks)
        THEN [r EXCEPT !.i = i,
                       !.log = Append(@, r.callbacks[i + 1]),
                       !.invoked = Append(@, [h |-> r.callbacks[i + 1], cont |-> "next",
                                              called |-> 0])]
        ELSE IF i < Len(r.callbacks)
        THEN [r EXCEPT !.i = i,
                       !.log = Append(@, r.callbacks[i + 1]),
                       !.invoked = Append(@, [h |-> r.callbacks[i + 1],
                                              cont |-> "_callback", called |-> 0])]
        ELSE [r EXCEPT !.i = i, !.err = "TypeError"]

CallNextDropped(r) == r

(* next(): the external fallback continuation F *)
CallNext(r) == [r EXCEPT !.log = Append(@, "F")]

LookupOps(b, method) ==
    [name |-> b.pathname, method |-> method,
     parent |-> IF Front(b.resource) # <<>> THEN Last(Front(b.resource)).resource ELSE Null]

MiddlewareResult(res, rt, p, url, method) ==
    LET b == BuildChain(res, rt, url)
        r0 == [NewReq EXCEPT !.pc = "active"]
    IN  IF b.err # NoErr THEN [r0 EXCEPT !.err = b.err]
        ELSE LET r1 == [r0 EXCEPT !.resource = b.resource, !.pathname = b.pathname,
                                  !.subpath = b.subpath]
                 callbacks == GetResourcePath(p, Last(b.resource).resource,
                                              LookupOps(b, method))
             IN  IF callbacks.kind = "value" /\ Len(callbacks.val) > 0
                 THEN Callback([r1 EXCEPT !.callbacks = callbacks.val])
                 ELSE CallNext(r1)

(* A handler that was invoked calls the continuation it was given. The     *)
(* cursor `i` is a local of the middleware call that serves the request.   *)
ContinueResultSharedCursor(r, k) ==
    LET shared == CHOOSE n \in {reqs[q].i : q \in ReqIds} :
                      \A q \in ReqIds : reqs[q].i <= n
        r1 == [r EXCEPT !.invoked[k].called = @ + 1, !.i = shared]
    IN  IF r.invoked[k].cont = "next" THEN CallNext(r1) ELSE Callback(r1)

ContinueResult(r, k) ==
    LET r1 == [r EXCEPT !.invoked[k].called = @ + 1]
    IN  IF r.invoked[k].cont = "next" THEN CallNext(r1) ELSE Callback(r1)

----------------------------------------------------------------------------
(* State machine. `last` observes the most recent API call: its name, its  *)
(* arguments, the error it raised and what it returned.                    *)

RootUndefined == [kind |-> "undefined"]

RootNull == [kind |-> "null"]

Init ==
    /\ resources = EmptyObj
    /\ root = RootUndefined
    /\ paths = EmptyObj
    /\ reqs = [q \in ReqIds |-> NewReq]
    /\ last = [op |-> "none"]

RegisterResource(id, proto) ==
    /\ resources' = Put(resources, id, Factory(id, proto))
    /\ last' = [op |-> "registerResource", id |-> id, proto |-> proto, err |-> NoErr]
    /\ UNCHANGED <<root, paths, reqs>>

SetRootResource(id) ==
    /\ IF CheckResourceFails(resources, id)
       THEN /\ last' = [op |-> "setRootResource", id |-> id, err |-> "UnregisteredResource"]
            /\ UNCHANGED root
       ELSE /\ root' = [kind |-> "factory", factory |-> resources[id]]
            /\ last' = [op |-> "setRootResource", id |-> id, err |-> NoErr]
    /\ UNCHANGED <<resources, paths, reqs>>

RegisterResourcePath(resourceId, ops, callbacks) ==
    LET result == RegisterResourcePathResult(resources, root, paths, resourceId, ops,
                                             callbacks)
    IN  /\ Cardinality(PathEntries(result.paths)) <= MaxPaths
        /\ paths' = result.paths
        /\ last' = [op |-> "registerResourcePath", resourceId |-> resourceId, ops |-> ops,
                    callbacks |-> callbacks, err |-> result.err]
        /\ UNCHANGED <<resources, root, reqs>>

CallGetResourcePath(resourceId, ops) ==
    /\ last' = [op |-> "getResourcePath", resourceId |-> resourceId, ops |-> ops,
                err |-> NoErr, ret |-> GetResourcePath(paths, resourceId, ops)]
    /\ UNCHANGED <<resources, root, paths, reqs>>

ClearKeepsRoot ==
    /\ resources' = EmptyObj
    /\ paths' = EmptyObj
    /\ last' = [op |-> "clear", err |-> NoErr]
    /\ UNCHANGED <<root, reqs>>

Clear ==
    /\ resources' = EmptyObj
    /\ paths' = EmptyObj
    /\ root' = RootNull
    /\ last' = [op |-> "clear", err |-> NoErr]
    /\ UNCHANGED reqs

(* The instances a caller can hold: the leaf of a request and its ancestors *)
Instances(q) == {SubSeq(reqs[q].resource, 1, k) : k \in 1..Len(reqs[q].resource)}

CallInitResource(id, key, parent) ==
    LET result == InitResource(resources, id, key, parent)
    IN  /\ last' = [op |-> "initResource", id |-> id, key |-> key, parent |-> parent,
                    err |-> result.err, ret |-> result.val]
        /\ UNCHANGED <<resources, root, paths, reqs>>

CallGet(x, key) ==
    LET result == Get(resources, x, key)
    IN  /\ last' = [op |-> "get", x |-> x, key |-> key, err |-> result.err,
                    ret |-> result.val]
        /\ UNCHANGED <<resources, root, paths, reqs>>

CallTraverseTo(x, resourceId) ==
    LET result == TraverseTo(x, resourceId)
    IN  /\ last' = [op |-> "traverseTo", x |-> x, resourceId |-> resourceId,
                    err |-> result.err, ret |-> result.val]
        /\ UNCHANGED <<resources, root, paths, reqs>>

CallBuildResourceUrl(x, pathname) ==
    /\ last' = [op |-> "buildResourceUrl", x |-> x, pathname |-> pathname, err |-> NoErr,
                ret |-> BuildResourceUrl(x, pathname)]
    /\ UNCHANGED <<resources, root, paths, reqs>>

(* A request object is handed to the middleware once *)
Middleware(q, url, method) ==
    /\ reqs[q].pc = "idle"
    /\ LET r == MiddlewareResult(resources, root, paths, url, method)
       IN  /\ reqs' = [reqs EXCEPT ![q] = r]
           /\ last' = [op |-> "middleware", q |-> q, url |-> url, method |-> method,
                       err |-> r.err]
    /\ UNCHANGED <<resources, root, paths>>

Continue(q, k) ==
    /\ reqs[q].pc = "active"
    /\ k \in 1..Len(reqs[q].invoked)
    /\ reqs[q].invoked[k].called < MaxContCalls
    /\ LET r == ContinueResult(reqs[q], k)
       IN  /\ reqs' = [reqs EXCEPT ![q] = r]
           /\ last' = [op |-> "continue", q |-> q, k |-> k, err |-> r.err]
    /\ UNCHANGED <<resources, root, paths>>

(* Input sets *)

LongChain == SubSeq(HandlerPool, 1, MaxHandlers)

CallbackArgs == {<<>>, <<"h1">>, LongChain, <<"h1", NonCallable>>}

PathOps ==
    [parent : {Undefined, "U"}, method : {Undefined, "GET", "post"}, name : {<<>>, u}]

LookupOpsSet ==
    [parent : {Null, "U"}, method : Methods, name : {<<>>, u}]

TreePathOps ==
    {[parent |-> Undefined, method |-> Undefined, name |-> u],
     [parent |-> "U", method |-> Undefined, name |-> <<>>]}

FewPathOps == [parent : {Undefined, "U"}, method : {Undefined}, name : {<<>>, u}]

ShortUrls == SeqsUpTo(Chars, MaxShortUrlLen)

ProtosFor(id) ==
    CASE id = "R" -> {PRoot, PMixed}
      [] id = "U" -> {PMixed, PLeaf}
      [] OTHER -> {PUsers, PLeaf}

CanonicalProto(id) ==
    CASE id = "R" -> PRoot
      [] id = "U" -> PMixed
      [] OTHER -> PUsers

(* The host registers at startup and serves requests afterwards: the       *)
(* registration calls of a specification are taken while no request has    *)
(* been dispatched.                                                        *)
Startup == \A q \in ReqIds : reqs[q].pc = "idle"

(* The registration API with every prototype, a small path table and short *)
(* urls.                                                                   *)
Next ==
    \/ Startup /\ \E id \in Ids : \E proto \in ProtosFor(id) : RegisterResource(id, proto)
    \/ Startup /\ \E id \in {"R", "U"} : SetRootResource(id)
    \/ Startup /\ \E id \in {"R", "I"}, ops \in TreePathOps :
          RegisterResourcePath(id, ops, <<"h1">>)
    \/ Startup /\ Clear
    \/ \E id \in Ids : CallInitResource(id, u, <<>>)
    \/ \E x \in Instances("q1"), key \in {u, <<"4">>} : CallGet(x, key)
    \/ \E url \in ShortUrls, method \in Methods : Middleware("q1", url, method)

Spec == Init /\ [][Next]_vars

(* The tree: one prototype per id, every url, and the operations of a      *)
(* resource instance.                                                      *)
NextChain ==
    \/ Startup /\ \E id \in Ids : RegisterResource(id, CanonicalProto(id))
    \/ Startup /\ SetRootResource("R")
    \/ \E url \in Urls : Middleware("q1", url, "GET")
    \/ \E x \in Instances("q1"), key \in Keys : CallGet(x, key)
    \/ \E x \in Instances("q1"), id \in Ids : CallTraverseTo(x, id)
    \/ \E x \in Instances("q1") : CallBuildResourceUrl(x, <<>>)

SpecChain == Init /\ [][NextChain]_vars

(* The path table: one prototype per id, many registrations and lookups    *)
NextPaths ==
    \/ \E id \in Ids : RegisterResource(id, CanonicalProto(id))
    \/ SetRootResource("R")
    \/ Clear
    \/ \E ops \in PathOps, cbs \in CallbackArgs : RegisterResourcePath("I", ops, cbs)
    \/ \E ops \in LookupOpsSet : CallGetResourcePath("I", ops)

SpecPaths == Init /\ [][NextPaths]_vars

(* Dispatch: handler chains and the continuations the handlers call        *)
NextDispatch ==
    \/ Startup /\ \E id \in Ids : RegisterResource(id, CanonicalProto(id))
    \/ Startup /\ SetRootResource("R")
    \/ Startup /\ \E ops \in FewPathOps, cbs \in CallbackArgs :
          RegisterResourcePath("U", ops, cbs)
    \/ \E url \in ShortUrls, method \in Methods : Middleware("q1", url, method)
    \/ \E k \in 1..MaxHandlers : Continue("q1", k)

SpecDispatch == Init /\ [][NextDispatch]_vars

(* A handler that calls the continuation it was given, and only once *)
ContinueOnce(q, k) ==
    /\ k \in 1..Len(reqs[q].invoked)
    /\ reqs[q].invoked[k].called = 0
    /\ Continue(q, k)

(* Two requests served against a registry that is set up before the first  *)
(* of them arrives; their handlers continue in any interleaving.           *)
IsolationUrls == {<<>>, u, <<"u", "/", "4">>}

NextIsolation ==
    \/ Startup /\ \E id \in Ids : RegisterResource(id, CanonicalProto(id))
    \/ Startup /\ SetRootResource("R")
    \/ Startup /\ \E ops \in FewPathOps, cbs \in {<<"h1">>, LongChain} :
          RegisterResourcePath("U", ops, cbs)
    \/ \E q \in ReqIds, url \in IsolationUrls : Middleware(q, url, "GET")
    \/ \E q \in ReqIds, k \in 1..MaxHandlers : ContinueOnce(q, k)

SpecIsolation == Init /\ [][NextIsolation]_vars

(* Paths registered while a request is being served, over a registry in    *)
(* which one of the type ids is the string "all".                          *)
LiveIds == {"R", "U", "all"}

LiveOps == [parent : {Undefined, "R", "all"}, method : {Undefined, "GET"}, name : {<<>>}]

LiveUrls == {<<>>, u, <<"u", "/", "4">>}

NextLive ==
    \/ Startup /\ \E id \in LiveIds : RegisterResource(id, CanonicalProto(id))
    \/ Startup /\ SetRootResource("R")
    \/ \E ops \in LiveOps, cbs \in {<<"h1">>, LongChain} :
          RegisterResourcePath("U", ops, cbs)
    \/ \E url \in LiveUrls, method \in Methods : Middleware("q1", url, method)
    \/ \E k \in 1..MaxHandlers : ContinueOnce("q1", k)

SpecLive == Init /\ [][NextLive]_vars

----------------------------------------------------------------------------
(* Properties *)

IsPrefix(s, t) == Len(s) <= Len(t) /\ SubSeq(t, 1, Len(s)) = s

OnceEach(r) == \A k \in 1..Len(r.invoked) : r.invoked[k].called <= 1

AllContinued(r) ==
    /\ Len(r.invoked) = Len(r.callbacks)
    /\ \A k \in 1..Len(r.invoked) : r.invoked[k].called = 1

(* C1: when a request matched a non-empty handler sequence h1..hn (one of  *)
(* the registered sequences) and no handler has called its continuation    *)
(* more than once, the invocations so far are a prefix of h1, ..., hn, F;  *)
(* the k-th handler invoked is hk and it received the internal             *)
(* continuation, except hn which received the external fallback; and once  *)
(* every handler has called its continuation exactly once the recorded     *)
(* order is exactly h1, ..., hn, F.                                        *)
C1_RegistrationOrder ==
    \A q \in ReqIds :
        LET r == reqs[q]
        IN  (r.callbacks # <<>> /\ OnceEach(r)) =>
                /\ IsPrefix(r.log, r.callbacks \o <<"F">>)
                /\ \A k \in 1..Len(r.invoked) :
                      /\ r.invoked[k].h = r.callbacks[k]
                      /\ r.invoked[k].cont =
                            IF k = Len(r.callbacks) THEN "next" ELSE "_callback"
                /\ AllContinued(r) => r.log = r.callbacks \o <<"F">>
                /\ \E e \in PathEntries(paths) : paths[e[1]][e[2]][e[3]][e[4]] = r.callbacks

C1_Witness ==
    /\ reqs["q1"].callbacks = <<"h2", "h1", "h3">>
    /\ AllContinued(reqs["q1"])
    /\ reqs["q1"].log = <<"h2", "h1", "h3", "F">>

Registered(res, id) == id \in DOMAIN res

NameOf(ops) == IF ops.name # <<>> THEN ops.name ELSE IndexName

(* C2 (as claimed): a lookup (r, {name n, parent p, method m}) returns no  *)
(* match only if none of (r, n, p, m), (r, n, p, "all"), (r, n, "all", m)  *)
(* and (r, n, "all", "all") is registered.                                 *)
C2_FallbackFindsAnyOfFour ==
    (last.op = "getResourcePath" /\ last.ret.kind # "value") =>
        LET r == last.resourceId
            n == NameOf(last.ops)
            m == ToLowerCase(last.ops.method)
        IN  {<<r, n, last.ops.parent, m>>, <<r, n, last.ops.parent, "all">>,
             <<r, n, "all", m>>, <<r, n, "all", "all">>} \cap PathEntries(paths) = {}

(* C4: a registerResourcePath call fails with RootNotSet when no root is   *)
(* set; otherwise with UnregisteredResource when the target, or a given    *)
(* parent, is not registered; otherwise with MissingHandlers when no       *)
(* handler is supplied; otherwise with InvalidHandlerType when a supplied   *)
(* handler is not callable (the conditions are tried in this order); and a *)
(* failing call leaves the registry, the root and the path table as they   *)
(* were.                                                                   *)
C4_RegisterPathErrors ==
    [][last'.op = "registerResourcePath" =>
          LET a == last'
              noRoot == ~RootSet(root)
              unregistered ==
                  \/ ~Registered(resources, a.resourceId)
                  \/ a.ops.parent # Undefined /\ ~Registered(resources, a.ops.parent)
              noHandlers == Len(a.callbacks) = 0
              notCallable == \E k \in 1..Len(a.callbacks) : a.callbacks[k] \notin Handlers
          IN  /\ noRoot => a.err = "RootNotSet"
              /\ (~noRoot /\ unregistered) => a.err = "UnregisteredResource"
              /\ (~noRoot /\ ~unregistered /\ noHandlers) => a.err = "MissingHandlers"
              /\ (~noRoot /\ ~unregistered /\ ~noHandlers /\ notCallable) =>
                     a.err = "InvalidHandlerType"
              /\ (noRoot \/ unregistered \/ noHandlers \/ notCallable) =>
                     /\ a.err # NoErr
                     /\ UNCHANGED <<resources, root, paths>>]_vars

C4_Witness ==
    /\ last.op = "registerResourcePath"
    /\ last.err = "InvalidHandlerType"
    /\ paths # EmptyObj

----------------------------------------------------------------------------
(* The request a middleware call has just handled, the segments of its url *)
(* and the number of segments its chain matched                            *)

JustServed == last.op = "middleware" /\ last.err = NoErr

Served == reqs[last.q]

Segs == Segments(last.url)

Matched == Len(Served.resource) - 1

(* Each node of the chain is what get returned for the next segment *)
ChainFollowsSegments ==
    /\ Matched <= Len(Segs)
    /\ \A j \in 1..Matched :
          Get(resources, SubSeq(Served.resource, 1, j), Segs[j]) =
              Ok(SubSeq(Served.resource, 1, j + 1))

StoppedOnNoMatch ==
    /\ Matched < Len(Segs)
    /\ Get(resources, Served.resource, Segs[Matched + 1]) = Ok(<<>>)

(* C3 (as claimed): when buildChain stops on a segment s that get does not *)
(* resolve, the leaf is the instance of the last matched segment (or the   *)
(* root) and the subpath recorded on the request is s followed by the      *)
(* remaining segments.                                                     *)
C3_SubpathIncludesUnmatched ==
    (JustServed /\ StoppedOnNoMatch) =>
        /\ ChainFollowsSegments
        /\ Served.subpath = SubSeq(Segs, Matched + 1, Len(Segs))

(* C3 (amended): when buildChain stops on a segment s that get does not    *)
(* resolve, the leaf is the instance of the last matched segment (or the   *)
(* root), s is recorded as the request's pathname and the segments after s *)
(* as its subpath.                                                         *)
C3_PathnameAndSubpath ==
    JustServed =>
        /\ ChainFollowsSegments
        /\ Matched < Len(Segs) =>
              /\ StoppedOnNoMatch
              /\ Served.pathname = Segs[Matched + 1]
              /\ Served.subpath = SubSeq(Segs, Matched + 2, Len(Segs))

C3_Witness ==
    /\ JustServed
    /\ last.url = <<"u", "/", "4", "/", "u">>
    /\ Len(Served.resource) = 3
    /\ Last(Served.resource).key = <<"4">>
    /\ Served.pathname = u
    /\ Served.subpath = <<>>

Max(S) == CHOOSE m \in S : \A n \in S : n <= m

NearestAncestor(x, resourceId) ==
    LET found == {k \in 1..(Len(x) - 1) : x[k].resource = resourceId}
    IN  IF found = {} THEN <<>> ELSE SubSeq(x, 1, Max(found))

(* C5 (as claimed): x.traverseTo(t) raises no error on any instance, the   *)
(* root included, and returns the nearest strict ancestor of type t, or    *)
(* null when there is none.                                                *)
C5_NearestStrictAncestor ==
    last.op = "traverseTo" =>
        /\ last.err = NoErr
        /\ last.ret = NearestAncestor(last.x, last.resourceId)

(* C6: when buildChain consumes every segment of the url, the url built    *)
(* from the leaf is "/" followed by the segments joined with "/"; for a    *)
(* url already in that form it is the url itself.                          *)
Canonical(url) ==
    /\ Len(url) >= 1
    /\ url[1] = "/"
    /\ \A k \in 2..Len(url) : url[k] = "/" => (url[k - 1] # "/" /\ k < Len(url))

C6_UrlRoundTrip ==
    (JustServed /\ Matched = Len(Segs)) =>
        /\ BuildResourceUrl(Served.resource, <<>>) = <<"/">> \o Join(Segs)
        /\ Canonical(last.url) => BuildResourceUrl(Served.resource, <<>>) = last.url

C6_Witness ==
    /\ JustServed
    /\ last.url = <<"/", "u", "/", "4">>
    /\ Len(Served.resource) = 3
    /\ BuildResourceUrl(Served.resource, <<>>) = <<"/", "u", "/", "4">>

(* C7: x.get(s) resolves to the type mapped by a literal `children` key s  *)
(* when there is one, even if a dynamic `child` would accept s; otherwise  *)
(* to the `child` type when childValidate accepts s; otherwise it returns  *)
(* null. The resolved type yields an instance of it with key s and parent  *)
(* x (a type that is not registered is the error of C8).                   *)
NoTarget == "none"

ResolvesTo(proto, key) ==
    IF key \in DOMAIN proto.children THEN proto.children[key]
    ELSE IF proto.child # Undefined /\ ChildValidate(proto, key) THEN proto.child
    ELSE NoTarget

C7_GetPriority ==
    last.op = "get" =>
        LET target == ResolvesTo(Last(last.x).proto, last.key)
        IN  IF target = NoTarget THEN last.err = NoErr /\ last.ret = <<>>
            ELSE IF Registered(resources, target)
            THEN /\ last.err = NoErr
                 /\ last.ret # <<>>
                 /\ Last(last.ret).resource = target
                 /\ Last(last.ret).key = last.key
                 /\ Front(last.ret) = last.x
            ELSE last.err = "UnregisteredResource"

C7_Witness ==
    /\ last.op = "get"
    /\ Last(last.x).proto = PMixed
    /\ last.key = <<"4">>
    /\ last.err = NoErr
    /\ last.ret # <<>>
    /\ Last(last.ret).resource = "U"

UnregisteredTarget(a) ==
    \/ ~Registered(resources, a.resourceId)
    \/ a.ops.parent # Undefined /\ ~Registered(resources, a.ops.parent)

DereferencesUnregistered ==
    \/ /\ last.op = "get"
       /\ ResolvesTo(Last(last.x).proto, last.key) # NoTarget
       /\ ~Registered(resources, ResolvesTo(Last(last.x).proto, last.key))
    \/ last.op = "setRootResource" /\ ~Registered(resources, last.id)
    \/ last.op = "registerResourcePath" /\ RootSet(root) /\ UnregisteredTarget(last)

(* C8 (as claimed): get resolving to an unregistered type, setRootResource *)
(* of an unregistered id, registerResourcePath (past its root check) with  *)
(* an unregistered target or parent, and initResource of an unregistered   *)
(* id all fail with UnregisteredResource.                                  *)
C8_UnregisteredAlwaysFails ==
    (DereferencesUnregistered \/ (last.op = "initResource" /\ ~Registered(resources, last.id)))
        => last.err = "UnregisteredResource"

(* C8 (amended): get, setRootResource and registerResourcePath fail with   *)
(* UnregisteredResource on an unregistered type id; initResource of an     *)
(* unregistered id raises no error and returns null.                       *)
C8_UnregisteredFailsExceptInit ==
    /\ DereferencesUnregistered => last.err = "UnregisteredResource"
    /\ (last.op = "initResource" /\ ~Registered(resources, last.id)) =>
           (last.err = NoErr /\ last.ret = <<>>)

C8_Witness ==
    /\ last.op = "get"
    /\ last.err = "UnregisteredResource"
    /\ ~Registered(resources, ResolvesTo(Last(last.x).proto, last.key))

(* The type ids a prototype refers to *)
Refs(proto) ==
    {proto.children[k] : k \in DOMAIN proto.children}
        \cup (IF proto.child # Undefined THEN {proto.child} ELSE {})

(* A root is set and every child/children reference, of the registered     *)
(* prototypes and of the prototype the root was set with, is registered    *)
Configured ==
    /\ RootSet(root)
    /\ Refs(root.factory.proto) \subseteq DOMAIN resources
    /\ \A id \in DOMAIN resources : Refs(resources[id].proto) \subseteq DOMAIN resources

Unresolved == Served.pathname # <<>>

NoEntry ==
    GetResourcePath(paths, Last(Served.resource).resource,
                    LookupOps(Served, last.method)).kind # "value"

(* C9 (as claimed): in a configured engine the middleware raises no error, *)
(* and when a segment is unresolved or the table has no entry for the      *)
(* leaf's lookup key no handler is invoked and F is invoked exactly once.  *)
C9_UnresolvedFallsThrough ==
    (last.op = "middleware" /\ Configured) =>
        /\ last.err = NoErr
        /\ (Unresolved \/ NoEntry) => (Served.invoked = <<>> /\ Served.log = <<"F">>)

(* C9 (amended): in a configured engine the middleware raises no error,    *)
(* and when the table has no entry for the leaf's lookup key (named by the *)
(* first unresolved segment, or "index") no handler is invoked and F is    *)
(* invoked exactly once.                                                   *)
C9_NoEntryFallsThrough ==
    (last.op = "middleware" /\ Configured) =>
        /\ last.err = NoErr
        /\ NoEntry => (Served.invoked = <<>> /\ Served.log = <<"F">>)

C9_Witness ==
    /\ last.op = "middleware"
    /\ Configured
    /\ Unresolved
    /\ paths # EmptyObj
    /\ NoEntry
    /\ Served.log = <<"F">>

BuiltFromRegistered(node) ==
    /\ Registered(resources, node.resource)
    /\ node.proto = resources[node.resource].proto

(* C10 (as claimed): every instance created after a re-registration, by    *)
(* get, by initResource or as the root of buildChain, is built from the    *)
(* definition registered last under its type id.                           *)
C10_LastWriteWins ==
    /\ (last.op \in {"get", "initResource"} /\ last.err = NoErr /\ last.ret # <<>>) =>
           BuiltFromRegistered(Last(last.ret))
    /\ JustServed => \A k \in 1..Len(Served.resource) : BuiltFromRegistered(Served.resource[k])

----------------------------------------------------------------------------
(* C11: clear() leaves an engine that behaves as a newly constructed one:  *)
(* checkResource fails for every id, getResourcePath returns null for      *)
(* every key, no root is set, and registerResourcePath and the middleware  *)
(* give the results they give on the initial configuration. While no root  *)
(* is set registerResourcePath fails with RootNotSet and stores nothing,   *)
(* and a root becomes set only by setRootResource of a registered id.      *)
C11_ClearResets ==
    [][/\ last'.op = "clear" =>
              /\ \A id \in Ids : CheckResourceFails(resources', id)
              /\ \A id \in Ids, ops \in LookupOpsSet :
                    GetResourcePath(paths', id, ops) = NullResult
              /\ ~RootSet(root')
              /\ \A id \in Ids, ops \in PathOps, cbs \in CallbackArgs :
                    /\ RegisterResourcePathResult(resources', root', paths', id, ops, cbs)
                           = RegisterResourcePathResult(EmptyObj, RootUndefined, EmptyObj,
                                                        id, ops, cbs)
                    /\ RegisterResourcePathResult(resources', root', paths', id, ops,
                                                  cbs).err = "RootNotSet"
              /\ \A url \in ShortUrls, method \in Methods :
                    MiddlewareResult(resources', root', paths', url, method)
                        = MiddlewareResult(EmptyObj, RootUndefined, EmptyObj, url, method)
       /\ (~RootSet(root) /\ last'.op = "registerResourcePath") =>
              (last'.err = "RootNotSet" /\ paths' = paths)
       /\ (~RootSet(root) /\ RootSet(root')) =>
              (last'.op = "setRootResource" /\ Registered(resources, last'.id))]_vars

C11_Witness ==
    /\ root = RootNull
    /\ resources # EmptyObj
    /\ paths = EmptyObj
    /\ last.op = "registerResourcePath"
    /\ last.err = "RootNotSet"

----------------------------------------------------------------------------
(* C12: with two requests in flight, the state of a request (its chain,    *)
(* pathname and subpath, matched handlers, cursor and invocations) changes *)
(* only in a middleware or continuation step of that request; once the     *)
(* request is dispatched its chain, pathname, subpath and handlers stay as *)
(* they are; and each request whose handlers continue at most once invokes *)
(* its own handlers in registration order followed by its own fallback.    *)
OwnStep(q) == last'.op \in {"middleware", "continue"} /\ last'.q = q

C12_RequestsIsolated ==
    [][\A q \in ReqIds :
          /\ reqs'[q] # reqs[q] => OwnStep(q)
          /\ reqs[q].pc = "active" =>
                 /\ reqs'[q].resource = reqs[q].resource
                 /\ reqs'[q].pathname = reqs[q].pathname
                 /\ reqs'[q].subpath = reqs[q].subpath
                 /\ reqs'[q].callbacks = reqs[q].callbacks
                 /\ reqs'[q].i # reqs[q].i => (OwnStep(q) /\ reqs'[q].i = reqs[q].i + 1)
          /\ (reqs'[q].callbacks # <<>> /\ OnceEach(reqs'[q])) =>
                 /\ IsPrefix(reqs'[q].log, reqs'[q].callbacks \o <<"F">>)
                 /\ AllContinued(reqs'[q]) =>
                        reqs'[q].log = reqs'[q].callbacks \o <<"F">>]_vars

C12_Witness ==
    /\ reqs["q1"].callbacks = LongChain
    /\ reqs["q1"].log = <<"h2", "h1">>
    /\ reqs["q2"].callbacks = <<"h1">>
    /\ reqs["q2"].log = <<"h1", "F">>
    /\ Len(reqs["q1"].resource) # Len(reqs["q2"].resource)

----------------------------------------------------------------------------
(* C13: whenever the table holds an entry under a specific parent p and a  *)
(* specific method m of (r, n), the lookup (r, {name n, parent p, method   *)
(* m in any case}) returns that entry's sequence, whatever the "all"       *)
(* buckets hold; right after a successful registration under a specific    *)
(* parent and method that lookup returns the sequence just supplied; and a *)
(* lookup returns a sequence only from an entry stored under the name it   *)
(* asked for ("index" when it gave none).                                  *)
EntryValue(e) == paths[e[1]][e[2]][e[3]][e[4]]

NamesFor(n) == IF n = IndexName THEN {n, <<>>} ELSE {n}

C13_MostSpecificWins ==
    /\ \A e \in PathEntries(paths) :
          (e[3] # "all" /\ e[4] # "all") =>
              \A m \in Methods, n \in NamesFor(e[2]) :
                  ToLowerCase(m) = e[4] =>
                      GetResourcePath(paths, e[1], [name |-> n, parent |-> e[3],
                                                    method |-> m]) = Value(EntryValue(e))
    /\ (/\ last.op = "registerResourcePath"
        /\ last.err = NoErr
        /\ last.ops.parent # Undefined
        /\ last.ops.method # Undefined) =>
           \A m \in Methods :
               ToLowerCase(m) = ToLowerCase(last.ops.method) =>
                   GetResourcePath(paths, last.resourceId,
                                   [name |-> last.ops.name, parent |-> last.ops.parent,
                                    method |-> m]) = Value(last.callbacks)
    /\ (last.op = "getResourcePath" /\ last.ret.kind = "value") =>
           \E e \in PathEntries(paths) :
               /\ e[1] = last.resourceId
               /\ e[2] = NameOf(last.ops)
               /\ EntryValue(e) = last.ret.val
    /\ (/\ last.op = "getResourcePath"
        /\ ~\E e \in PathEntries(paths) :
               e[1] = last.resourceId /\ e[2] = NameOf(last.ops)) =>
           last.ret = NullResult

C13_Witness ==
    /\ last.op = "getResourcePath"
    /\ last.ops = [name |-> <<>>, parent |-> "U", method |-> "GET"]
    /\ <<"I", IndexName, "U", "get">> \in PathEntries(paths)
    /\ <<"I", IndexName, "all", "all">> \in PathEntries(paths)
    /\ paths["I"][IndexName]["all"]["all"] # paths["I"][IndexName]["U"]["get"]
    /\ last.ret = Value(paths["I"][IndexName]["U"]["get"])

----------------------------------------------------------------------------
(* What the middleware dispatches for a chain: the sequence getResourcePath *)
(* returns for the leaf's key, or nothing                                  *)
Dispatched(p, r, method) ==
    LET found == GetResourcePath(p, Last(r.resource).resource, LookupOps(r, method))
    IN  IF found.kind = "value" THEN found.val ELSE <<>>

ParentType(x) == IF Front(x) # <<>> THEN Last(Front(x)).resource ELSE Null

(* The table that holds only the entry a registration call stored *)
OnlyRegistered(a) == StorePath(EmptyObj, a.resourceId, a.ops, a.callbacks)

(* C14 (as claimed): a request executes the sequence getResourcePath       *)
(* returns for (type of the leaf, first unresolved segment or "index",     *)
(* request method, type of the leaf's parent); and the sequence stored by  *)
(* a registration with a specific parent type P is executed only for       *)
(* requests whose leaf has a parent of type P.                             *)
C14_SpecificParentOnly ==
    /\ JustServed =>
          /\ Served.callbacks = Dispatched(paths, Served, last.method)
          /\ Served.callbacks # <<>> => Served.log = <<Served.callbacks[1]>>
    /\ (/\ last.op = "registerResourcePath"
        /\ last.err = NoErr
        /\ last.ops.parent # Undefined) =>
           \A url \in LiveUrls, method \in Methods :
               LET r == MiddlewareResult(resources, root, OnlyRegistered(last), url, method)
               IN  r.callbacks # <<>> => ParentType(r.resource) = last.ops.parent

----------------------------------------------------------------------------
(* C19: a successful registerResourcePath(r, {name n, parent p, method m}, *)
(* handlers) makes the entry at (r, n or "index", p or "all", lower-case m *)
(* or "all") the supplied sequence, adds no other entry, removes none and  *)
(* changes the sequence of none; it leaves the registry and the root as    *)
(* they were, and every request, with the sequence a request in flight is  *)
(* executing, as it was.                                                   *)
KeyOf(a) ==
    <<a.resourceId, NameOf(a.ops),
      IF a.ops.parent # Undefined THEN a.ops.parent ELSE "all",
      IF a.ops.method # Undefined THEN ToLowerCase(a.ops.method) ELSE "all">>

C19_OneEntryChanges ==
    [][(last'.op = "registerResourcePath" /\ last'.err = NoErr) =>
          /\ PathEntries(paths') = PathEntries(paths) \cup {KeyOf(last')}
          /\ paths'[KeyOf(last')[1]][KeyOf(last')[2]][KeyOf(last')[3]][KeyOf(last')[4]]
                 = last'.callbacks
          /\ \A e \in PathEntries(paths) \ {KeyOf(last')} :
                 paths'[e[1]][e[2]][e[3]][e[4]] = paths[e[1]][e[2]][e[3]][e[4]]
          /\ UNCHANGED <<resources, root, reqs>>]_vars

(* A registration has just replaced the entry a request in flight was      *)
(* matched with, next to another entry of the same bucket.                 *)
C19_Witness ==
    /\ last.op = "registerResourcePath"
    /\ last.err = NoErr
    /\ Cardinality(PathEntries(paths)) = 2
    /\ reqs["q1"].pc = "active"
    /\ reqs["q1"].callbacks = LongChain
    /\ reqs["q1"].log = <<"h2", "h1">>
    /\ \A method \in Methods : Dispatched(paths, reqs["q1"], method) = <<"h1">>

----------------------------------------------------------------------------
(* The url without its leading, trailing and repeated slashes *)
RECURSIVE Collapse(_)
Collapse(url) ==
    IF url = <<>> THEN <<>>
    ELSE IF Head(url) = "/" THEN Collapse(Tail(url))
    ELSE LET rest == Collapse(Tail(url))
         IN  IF Len(url) > 1 /\ url[2] = "/" /\ rest # <<>>
             THEN <<Head(url), "/">> \o rest
             ELSE <<Head(url)>> \o rest

(* C15: the segments of a request path are its non-empty pieces between    *)
(* slashes, in order; the chain buildChain returns has an instance without *)
(* key for the root and then one instance per segment s1..sk, keyed by it  *)
(* and returned by get on the instance before it, where k is the first     *)
(* position at which get on the instance built so far resolves nothing (or *)
(* the number of segments); no other reading of an earlier segment is      *)
(* tried.                                                                  *)
C15_GreedyFold ==
    JustServed =>
        /\ \A k \in 1..Len(Segs) :
              Segs[k] # <<>> /\ \A c \in 1..Len(Segs[k]) : Segs[k][c] # "/"
        /\ Join(Segs) = Collapse(last.url)
        /\ Served.resource[1].key = <<>>
        /\ Matched \in 0..Len(Segs)
        /\ \A j \in 1..Matched :
              /\ Served.resource[j + 1].key = Segs[j]
              /\ Get(resources, SubSeq(Served.resource, 1, j), Segs[j]).val
                     = SubSeq(Served.resource, 1, j + 1)
        /\ Matched < Len(Segs) =>
              Get(resources, Served.resource, Segs[Matched + 1]).val = <<>>

(* "/4/4" under a root that maps "4" to a childless type and also accepts  *)
(* it as a dynamic child: the chain stops after the static reading, while  *)
(* the dynamic reading would resolve the second segment as well.           *)
C15_Witness ==
    /\ JustServed
    /\ Segs = <<(<<"4">>), (<<"4">>)>>
    /\ Matched = 1
    /\ Last(Served.resource).proto = PLeaf
    /\ Served.pathname = <<"4">>
    /\ Registered(resources, "I")
    /\ Get(resources, New(resources["I"], <<"4">>, Front(Served.resource)), <<"4">>).val # <<>>

----------------------------------------------------------------------------
(* The number of segments a served request matched, from what it recorded: *)
(* every segment, less the unresolved one and those after it               *)
MatchedSegments ==
    Len(Segs) - (IF Served.pathname # <<>> THEN 1 + Len(Served.subpath) ELSE 0)

RECURSIVE InitRuns(_)
InitRuns(x) == IF x = <<>> THEN 0 ELSE Len(Last(x).inits) + InitRuns(Front(x))

(* C17: the instance a successful x.get(s) returns has key s, parent x and *)
(* the resolved type id, and init has run on it exactly once, finding that *)
(* key and that parent; a buildChain that matched k segments has built k+1 *)
(* instances, the root and one per matched segment, with k+1 runs of init  *)
(* in all, one on each.                                                    *)
C17_InitOnce ==
    /\ (last.op = "get" /\ last.err = NoErr /\ last.ret # <<>>) =>
           /\ Last(last.ret).key = last.key
           /\ Front(last.ret) = last.x
           /\ Last(last.ret).resource = ResolvesTo(Last(last.x).proto, last.key)
           /\ Last(last.ret).inits = <<[key |-> last.key, parent |-> last.x]>>
    /\ JustServed =>
           /\ Len(Served.resource) = MatchedSegments + 1
           /\ InitRuns(Served.resource) = MatchedSegments + 1
           /\ \A j \in 1..Len(Served.resource) :
                 Served.resource[j].inits =
                     <<[key |-> Served.resource[j].key,
                        parent |-> SubSeq(Served.resource, 1, j - 1)]>>

C17_Witness ==
    /\ last.op = "get"
    /\ last.err = NoErr
    /\ Len(last.x) = 3
    /\ last.key = <<"4", "4">>
    /\ last.ret # <<>>
    /\ Last(last.ret).inits = <<[key |-> <<"4", "4">>, parent |-> last.x]>>
    /\ InitRuns(last.ret) = 4

----------------------------------------------------------------------------
Count(log, h) == Cardinality({k \in 1..Len(log) : log[k] = h})

(* C16 (as claimed): when a non-empty sequence h1..hn was matched, F is    *)
(* invoked only by the continuation handed to hn, so never before hn was   *)
(* invoked; and while some invoked handler has not called its continuation *)
(* no handler after it has been invoked and F has not been invoked.        *)
C16_StallsWithoutContinuation ==
    \A q \in ReqIds :
        LET r == reqs[q]
            n == Len(r.callbacks)
        IN  r.callbacks # <<>> =>
                /\ Count(r.log, "F") =
                       (IF Len(r.invoked) = n THEN r.invoked[n].called ELSE 0)
                /\ \A k \in 1..Len(r.log) :
                       r.log[k] = "F" => \E j \in 1..(k - 1) : r.log[j] = r.callbacks[n]
                /\ \A k \in 1..Len(r.invoked) :
                       r.invoked[k].called = 0 =>
                           (Len(r.invoked) = k /\ Count(r.log, "F") = 0)

(* C18 (as claimed): whatever the handlers do with their continuations,    *)
(* calling one twice included, the cursor of a request that matched n      *)
(* handlers stays at most n-1, no call of a handler past the end of the    *)
(* sequence is attempted, and no handler is invoked twice.                 *)
C18_CursorInBounds ==
    \A q \in ReqIds :
        LET r == reqs[q]
        IN  r.callbacks # <<>> =>
                /\ r.i <= Len(r.callbacks) - 1
                /\ r.err = NoErr
                /\ \A h \in Handlers : Count(r.log, h) <= 1

====
